---- MODULE Spec2Model ----
(***************************************************************************)
(* Enrollment core of the EBTA portal (src/ebta_single_file_app.py):       *)
(* registration with fee validation, the status-token gate, the admin      *)
(* approve/lapse workflow, PIN issuance, session QR codes and check-in.    *)
(* Every HTTP handler is one action; a handler that returns or raises      *)
(* before conn.commit() leaves the database as it found it (sqlite3 rolls  *)
(* the open transaction back when the connection is closed).               *)
(***************************************************************************)
EXTENDS Integers, Sequences, FiniteSets, TLC

VARIABLES
    students,          \* table students: rows [id, phone, pin]
    tutors,            \* table tutors: rows [id, name, phone, pin]
    enrollments,       \* table enrollments
    payments,          \* table payments
    enrollment_files,  \* table enrollment_files
    registrations,     \* table registrations (annual fee)
    sessions,          \* table sessions: rows [id, subject_id, tutor_id]
    attendance,        \* table attendance
    settings,          \* table settings: current_month, enrollment_open
    seq,               \* sqlite_sequence: last AUTOINCREMENT id per table
    resp,              \* the response of the request in progress, with the
                       \* handler's locals it was computed from; NoResp when idle
    conns              \* the register requests of the worker threads that
                       \* run side by side, each on its own connection

vars == <<students, tutors, enrollments, payments, enrollment_files,
          registrations, sessions, attendance, settings, seq, resp, conns>>

db == <<students, tutors, enrollments, payments, enrollment_files,
        registrations, sessions, attendance, settings, seq>>

----------------------------------------------------------------------------
(* Bounds and input alphabets                                              *)

MaxEnrollments == 2   \* enrollment ids handed out in one behaviour
MaxCount == 20        \* largest subject count given to the fee calculator

Range(s) == {s[i] : i \in DOMAIN s}

NULL == "NULL"                        \* SQL NULL / Python None
Phones == {"p1", "p2"}                \* normalized WhatsApp numbers
Pins == {"11111", "22222", "33333"}   \* the PINs random.randint can format
BadPin == "123"                       \* a PIN that is not 5 digits
\* secrets.token_urlsafe(16): 128 random bits, so distinct calls return
\* distinct values; a value is named after the row it is generated for.
TokenValues == <<"tok1", "tok2", "tok3", "tok4">>
Tokens == Range(TokenValues)
Months == {"2026-11", "2026-12"}
Dates == {"2026-11-04", "2026-12-01"}
TutorNames == {"T1"}
TutorPhones == {"t1"}
MaxStudentId == Cardinality(Phones) + 1
MaxTutorId == Cardinality(TutorPhones) + 1
MaxSessionId == Cardinality(TutorNames)

\* The part of the seeded subject catalogue the requests refer to: the id
\* is the position in the seed list, the value the grade.
Subjects == (3 :> "G10") @@ (5 :> "G12") @@ (6 :> "G13")
SubjectIds == DOMAIN Subjects
Grades == {"G8", "G9", "G10", "G11", "G12", "G13"}

\* subject_ids as form strings; "99" names no subject.
SubjectStrs == {"5", "6", "99"}

\* SQLite INTEGER affinity: the integer a form string is stored/compared as.
SqlInt(s) ==
    CASE s = "3" -> 3 [] s = "5" -> 5 [] s = "6" -> 6 [] s = "99" -> 99

\* Python str() of a stored subject id.
Str(i) == CASE i = 3 -> "3" [] i = 5 -> "5" [] i = 6 -> "6" [] OTHER -> "99"

SubjectLists ==
    {<<a>> : a \in SubjectStrs} \cup
    {<<a, b>> : a \in SubjectStrs, b \in SubjectStrs}

Amounts == {250, 350, 500, 700}
NotANumber == -1                      \* amount_paid that int() rejects

----------------------------------------------------------------------------
(* FeeCalculator                                                           *)

fee_for_grade(g) ==
    IF g = "G13" THEN 350 ELSE IF g = "G12" THEN 250 ELSE 200

\* A mutant: ties rounded up instead of to the even integer.
py_round_half_up(num, den) == (2 * num + den) \div (2 * den)

\* Python 3 round(num/den) for num >= 0: nearest integer, ties to even.
\* (subtotal * 0.05 and subtotal * 0.10 are floats; for every subtotal the
\* handler can compute the float product rounds as the exact quotient.)
py_round(num, den) ==
    LET q == num \div den
        r == num % den
    IN  IF 2 * r < den THEN q
        ELSE IF 2 * r > den THEN q + 1
        ELSE IF q % 2 = 0 THEN q ELSE q + 1

total_due(grade, count) ==
    LET per == fee_for_grade(grade)
        subtotal == per * count
        discount ==
            IF count >= 3
            THEN IF grade = "G13" THEN py_round(subtotal * 10, 100)
                 ELSE py_round(subtotal * 5, 100)
            ELSE 0
    IN  subtotal - discount

\* The enrollment form's script (home): feeForGrade and updateFees.
feeForGrade(g) ==
    IF g = "" THEN 0
    ELSE IF g = "G12" THEN 250
    ELSE IF g = "G13" THEN 350
    ELSE 200

\* JavaScript Math.round(num/den) for num >= 0: nearest integer, ties
\* towards +infinity.
Math_round(num, den) == (2 * num + den) \div (2 * den)

\* window.ebtaTotalDue after updateFees() with `count` boxes of `grade`
\* checked.
ebtaTotalDue(grade, count) ==
    LET per == feeForGrade(grade)
        subtotal == per * count
        discount ==
            IF count >= 3
            THEN IF grade = "G13" THEN Math_round(subtotal * 10, 100)
                 ELSE Math_round(subtotal * 5, 100)
            ELSE 0
    IN  subtotal - discount

----------------------------------------------------------------------------
(* Database helpers                                                        *)

NoResp == [op |-> "idle", kind |-> "idle"]

require_admin_open(admin) == FALSE

\* require_admin: true when the handler returns the redirect to the admin
\* login, that is when the session holds no admin flag.
require_admin(admin) == ~admin

\* A response without a committed write.
Respond(r) == resp' = r /\ UNCHANGED db

ThisYear == "2026"

\* A mutant: only the students table is searched.
pin_in_use_students_only(pin) == \E s \in students : s.pin = pin

pin_in_use(pin) ==
    \/ \E s \in students : s.pin = pin
    \/ \E t \in tutors : t.pin = pin

\* The PINs the admin handlers and approve collect before calling gen_pin.
pins_taken ==
    {s.pin : s \in {x \in students : x.pin # NULL}} \cup
    {t.pin : t \in {x \in tutors : x.pin # NULL}}

\* gen_pin(existing) draws until the PIN is not in existing: every PIN
\* outside existing is a possible result (none: the loop never returns).
gen_pin(existing) == Pins \ existing

is_valid_pin(pin) == pin \in Pins

\* A mutant: the PIN of a known phone is not checked.
pin_mismatch_ignored(stored, pin) == FALSE

\* `srow['pin'] != pin`
pin_mismatch(stored, pin) == stored # pin

\* A mutant: an overpayment is accepted.
amount_underpaid(amount_paid, total) == amount_paid < total

\* `amount_paid != total_due`
amount_mismatch(amount_paid, total) == amount_paid # total

token_urlsafe(row) == TokenValues[row]

----------------------------------------------------------------------------
(* POST /register                                                          *)

\* A mutant: a reference that does not depend on the enrollment id.
payment_ref_fixed(eid) == 0

\* payment_ref = f"EFT-{eid}-{timestamp}": the reference is told apart by
\* the id of the enrollment row it was derived from.
payment_ref_for(eid) == eid

\* A mutant: the loop does not skip the subjects already enrolled.
register_todo_all(sid, month, subject_ids) == subject_ids

\* The rows the loop over subject_ids inserts: `existing` is read once,
\* before the loop, so every listed id outside it gets a row.
register_todo(sid, month, subject_ids) ==
    LET existing == {Str(e.subject_id) :
                        e \in {x \in enrollments :
                                 x.student_id = sid /\ x.month = month}}
    IN  SelectSeq(subject_ids, LAMBDA x : x \notin existing)

enrollment_closed_never(value) == FALSE

\* get_setting('enrollment_open', '1') != '1'
enrollment_closed(value) == value # "1"

conn_close_autocommit(rows) == rows

\* conn.close() with no conn.commit() before it: the rows the open
\* transaction wrote are rolled back, none of them is persisted.
conn_close(rows) == {}

register(phone, pin, subject_ids, nfiles, amount_paid, paid_check) ==
    LET op == "register"
        srow == {s \in students : s.phone = phone}
        isnew == srow = {}
        sid == IF isnew THEN seq.students + 1 ELSE (CHOOSE s \in srow : TRUE).id
        first == SqlInt(subject_ids[1])
        month == settings.current_month
        todo == register_todo(sid, month, subject_ids)
        base == seq.enrollments
        n == Len(todo)
        grade == Subjects[first]
        total == total_due(grade, Len(subject_ids))
        reg_insert == paid_check /\ ~(\E r \in registrations :
                                        r.student_id = sid /\ r.year = ThisYear)
    IN
    /\ resp = NoResp
    /\ IF enrollment_closed(settings.enrollment_open)
       THEN Respond([op |-> op, kind |-> "closed"])
       ELSE IF amount_paid = NotANumber
       THEN Respond([op |-> op, kind |-> "invalid_amount"])
       ELSE IF phone = "" \/ pin = "" \/ subject_ids = <<>>
       THEN Respond([op |-> op, kind |-> "fields_required"])
       ELSE IF ~is_valid_pin(pin)
       THEN Respond([op |-> op, kind |-> "bad_pin_shape"])
       ELSE IF nfiles < 1 \/ nfiles > 2
       THEN Respond([op |-> op, kind |-> "bad_file_count"])
       ELSE IF ~isnew /\ pin_mismatch((CHOOSE s \in srow : TRUE).pin, pin)
       THEN Respond([op |-> op, kind |-> "incorrect_pin",
                    phone |-> phone, pin |-> pin])
       ELSE IF isnew /\ pin_in_use(pin)
       THEN Respond([op |-> op, kind |-> "pin_in_use",
                    phone |-> phone, pin |-> pin])
       ELSE IF first \notin SubjectIds
       \* new phone: before the student insert; known phone: after the
       \* files are saved; either way nothing is committed
       THEN Respond([op |-> op, kind |-> "invalid_subject",
                     phone |-> phone, pin |-> pin,
                     stored |-> IF isnew THEN 0 ELSE nfiles])
       ELSE IF amount_mismatch(amount_paid, total)
       \* the student row and the registration row are written but the
       \* connection is closed without a commit
       THEN /\ students' = students \cup
                  conn_close(IF isnew
                             THEN {[id |-> sid, phone |-> phone, pin |-> pin]}
                             ELSE {})
            /\ registrations' = registrations \cup
                  conn_close(IF reg_insert
                             THEN {[id |-> seq.registrations + 1,
                                    student_id |-> sid, year |-> ThisYear]}
                             ELSE {})
            /\ resp' = [op |-> op, kind |-> "payment_error",
                        phone |-> phone, pin |-> pin,
                        amount_paid |-> amount_paid, total_due |-> total,
                        paid_check |-> paid_check, stored |-> nfiles]
            /\ UNCHANGED <<tutors, enrollments, payments, enrollment_files,
                           sessions, attendance, settings, seq>>
       ELSE IF \E i \in 1..n : SqlInt(todo[i]) \notin SubjectIds
       \* FOREIGN KEY(subject_id) fails: sqlite3.IntegrityError escapes
       THEN Respond([op |-> op, kind |-> "server_error",
                     phone |-> phone, pin |-> pin, stored |-> nfiles])
       ELSE
         /\ isnew => sid <= MaxStudentId
         /\ base + n <= MaxEnrollments
         /\ students' = IF isnew
                        THEN students \cup
                                {[id |-> sid, phone |-> phone, pin |-> pin]}
                        ELSE students
         /\ registrations' =
               IF reg_insert
               THEN registrations \cup
                       {[id |-> seq.registrations + 1, student_id |-> sid,
                         year |-> ThisYear]}
               ELSE registrations
         /\ enrollments' = enrollments \cup
               {[id |-> base + i, student_id |-> sid,
                 subject_id |-> SqlInt(todo[i]), month |-> month,
                 status |-> "PENDING", payment_ref |-> payment_ref_for(base + i),
                 amount_paid |-> amount_paid, status_token |-> token_urlsafe(base + i)] :
                 i \in 1..n}
         /\ payments' = payments \cup
               {[id |-> seq.payments + i, enrollment_id |-> base + i,
                 amount |-> amount_paid, reference |-> payment_ref_for(base + i)] : i \in 1..n}
         /\ enrollment_files' = enrollment_files \cup
               {[id |-> seq.enrollment_files + (i - 1) * nfiles + k,
                 enrollment_id |-> base + i, file_path |-> k] :
                 i \in 1..n, k \in 1..nfiles}
         /\ seq' = [seq EXCEPT
                      !.students = IF isnew THEN sid ELSE @,
                      !.enrollments = base + n,
                      !.payments = @ + n,
                      !.enrollment_files = @ + n * nfiles,
                      !.registrations = IF reg_insert THEN @ + 1 ELSE @]
         /\ resp' = [op |-> op,
                     kind |-> IF n = 0 THEN "no_change"
                              ELSE IF n = 1 THEN "redirect_status"
                              ELSE "submitted",
                     phone |-> phone, pin |-> pin, subject_ids |-> subject_ids,
                     amount_paid |-> amount_paid, total_due |-> total,
                     created |-> [i \in 1..n |-> <<base + i, token_urlsafe(base + i)>>],
                     stored |-> nfiles]
         /\ UNCHANGED <<tutors, sessions, attendance, settings>>

\* The client has its response; the server is idle again.
finish ==
    /\ resp # NoResp
    /\ resp' = NoResp
    /\ UNCHANGED <<db, conns>>

----------------------------------------------------------------------------
(* GET /status/<id>?token=                                                 *)

\* A mutant: a request without a usable token is refused.
status_denied_strict(token, stored) == token = NULL \/ token = "" \/ token # stored

\* A mutant: the token is not compared.
status_denied_never(token, stored) == FALSE

\* `if token and token != e['status_token']`: None and '' are falsy.
status_denied(token, stored) == token # NULL /\ token # "" /\ token # stored

status(id, token) ==
    LET op == "status"
        e == {x \in enrollments : x.id = id}
        row == CHOOSE x \in e : TRUE
    IN
    /\ resp = NoResp
    /\ IF e = {}
       THEN Respond([op |-> op, kind |-> "not_found", id |-> id, token |-> token])
       ELSE IF status_denied(token, row.status_token)
       THEN Respond([op |-> op, kind |-> "forbidden", id |-> id, token |-> token])
       ELSE Respond([op |-> op, kind |-> "view", id |-> id, token |-> token,
                    status |-> row.status, month |-> row.month,
                    subject_id |-> row.subject_id])

----------------------------------------------------------------------------
(* POST /admin/enrollments/<id>/<action>                                   *)

\* A mutant: approve replaces the PIN of a student who already has one.
needs_pin_always(pin) == TRUE

\* `if not notify_pin`: the student row has no PIN (NULL or '').
needs_pin(pin) == pin = NULL \/ pin = ""

\* A mutant: lapse only acts on an enrollment that is still PENDING.
set_status_from_pending(id, value) ==
    {IF e.id = id /\ e.status = "PENDING" THEN [e EXCEPT !.status = value] ELSE e :
        e \in enrollments}

\* A mutant: the update also writes a fresh (empty) token.
set_status_retoken(id, value) ==
    {IF e.id = id THEN [e EXCEPT !.status = value, !.status_token = ""] ELSE e :
        e \in enrollments}

\* UPDATE enrollments SET status=? WHERE id=?
set_status_all(id, value) ==
    {[e EXCEPT !.status = value] : e \in enrollments}

set_status(id, value) ==
    {IF e.id = id THEN [e EXCEPT !.status = value] ELSE e : e \in enrollments}

\* What the notifier does when it is called, an input of the request: whether
\* the student row has an e-mail address (students.email is not otherwise
\* modelled), and for each channel whether the send succeeds ("sent"), fails
\* inside send_*_notification, which logs and returns ("failed"), or lets an
\* exception escape ("raised").
Outcomes == {"sent", "failed", "raised"}
Notifiers == [has_email : BOOLEAN, email : Outcomes, sms : Outcomes]
QuietNotifier == {[has_email |-> FALSE, email |-> "sent", sms |-> "sent"]}

\* The notifier calls of one request, in order, after commit and close: none
\* unless the action is approve and a phone and a PIN are known; the e-mail
\* first when there is an address; the SMS unless the e-mail call raised.
notifications(action, notify, n) ==
    IF action = "approve" /\ notify # {}
    THEN (IF n.has_email
          THEN <<[channel |-> "email", outcome |-> n.email]>> ELSE <<>>)
         \o (IF n.has_email /\ n.email = "raised"
             THEN <<>> ELSE <<[channel |-> "sms", outcome |-> n.sms]>>)
    ELSE <<>>

notify_raised(calls) == \E i \in 1..Len(calls) : calls[i].outcome = "raised"

after_notifications_unguarded(calls) ==
    IF notify_raised(calls) THEN "server_error"
    ELSE "redirect_admin_enrollments"

\* except Exception: pass, then the redirect: the response does not depend on
\* what the notifier calls did.
after_notifications(calls) == "redirect_admin_enrollments"

enrollment_action(admin, id, action, n) ==
    LET op == "enrollment_action"
        e == {x \in enrollments : x.id = id}
        srow == {s \in students : \E x \in e : x.student_id = s.id}
        st == CHOOSE s \in srow : TRUE
        \* notify: the (phone, pin) the approval notification carries;
        \* calls: the notifier calls made after the commit
        done(notify) ==
            LET calls == notifications(action, notify, n) IN
            [op |-> op, kind |-> after_notifications(calls),
             admin |-> admin, id |-> id, action |-> action,
             notify |-> notify, calls |-> calls]
    IN
    /\ resp = NoResp
    /\ IF require_admin(admin)
       THEN Respond([op |-> op, kind |-> "redirect_admin_login",
                    admin |-> admin, id |-> id, action |-> action])
       ELSE IF action = "approve"
       THEN /\ enrollments' = set_status(id, "ACTIVE")
            /\ IF srow # {} /\ needs_pin(st.pin)
               THEN \E new_pin \in gen_pin(pins_taken) :
                      /\ students' = (students \ {st}) \cup
                                        {[st EXCEPT !.pin = new_pin]}
                      /\ resp' = done({[phone |-> st.phone, pin |-> new_pin,
                                        issued |-> TRUE]})
               ELSE /\ students' = students
                    /\ resp' = done(IF srow = {} THEN {}
                                    ELSE {[phone |-> st.phone, pin |-> st.pin,
                                           issued |-> FALSE]})
            /\ UNCHANGED <<tutors, payments, enrollment_files, registrations,
                           sessions, attendance, settings, seq>>
       ELSE IF action = "lapse"
       THEN /\ enrollments' = set_status(id, "LAPSED")
            /\ resp' = done({})
            /\ UNCHANGED <<students, tutors, payments, enrollment_files,
                           registrations, sessions, attendance, settings, seq>>
       ELSE Respond(done({}))

----------------------------------------------------------------------------
(* Admin: students and tutors                                              *)

admin_student_add(admin, phone) ==
    LET op == "admin_student_add" IN
    /\ resp = NoResp
    /\ IF require_admin(admin) THEN Respond([op |-> op, kind |-> "redirect_admin_login"])
       ELSE IF phone = "" THEN Respond([op |-> op, kind |-> "missing_fields"])
       ELSE \E pin \in gen_pin(pins_taken) :
              IF \E s \in students : s.phone = phone
              \* UNIQUE(phone_whatsapp): sqlite3.IntegrityError is caught
              THEN Respond([op |-> op, kind |-> "phone_exists"])
              ELSE /\ seq.students < MaxStudentId
                   /\ students' = students \cup
                         {[id |-> seq.students + 1, phone |-> phone, pin |-> pin]}
                   /\ seq' = [seq EXCEPT !.students = @ + 1]
                   /\ resp' = [op |-> op, kind |-> "redirect_admin_students"]
                   /\ UNCHANGED <<tutors, enrollments, payments, enrollment_files,
                                  registrations, sessions, attendance, settings>>

admin_student_reset_pin(admin, sid) ==
    LET op == "admin_student_reset_pin" IN
    /\ resp = NoResp
    /\ IF require_admin(admin) THEN Respond([op |-> op, kind |-> "redirect_admin_login"])
       ELSE \E new_pin \in gen_pin(pins_taken) :
              /\ students' = {IF s.id = sid THEN [s EXCEPT !.pin = new_pin] ELSE s :
                                s \in students}
              /\ resp' = [op |-> op, kind |-> "pin_updated", pin |-> new_pin]
              /\ UNCHANGED <<tutors, enrollments, payments, enrollment_files,
                             registrations, sessions, attendance, settings, seq>>

admin_tutor_add(admin, name, phone) ==
    LET op == "admin_tutor_add" IN
    /\ resp = NoResp
    /\ IF require_admin(admin) THEN Respond([op |-> op, kind |-> "redirect_admin_login"])
       ELSE IF name = "" \/ phone = ""
       THEN Respond([op |-> op, kind |-> "missing_fields"])
       ELSE \E pin \in gen_pin(pins_taken) :
              IF \E t \in tutors : t.phone = phone
              THEN Respond([op |-> op, kind |-> "phone_exists"])
              ELSE /\ seq.tutors < MaxTutorId
                   /\ tutors' = tutors \cup
                         {[id |-> seq.tutors + 1, name |-> name,
                           phone |-> phone, pin |-> pin]}
                   /\ seq' = [seq EXCEPT !.tutors = @ + 1]
                   /\ resp' = [op |-> op, kind |-> "tutor_added", pin |-> pin]
                   /\ UNCHANGED <<students, enrollments, payments, enrollment_files,
                                  registrations, sessions, attendance, settings>>

admin_tutor_reset_pin(admin, tid) ==
    LET op == "admin_tutor_reset_pin" IN
    /\ resp = NoResp
    /\ IF require_admin(admin) THEN Respond([op |-> op, kind |-> "redirect_admin_login"])
       ELSE \E new_pin \in gen_pin(pins_taken) :
              /\ tutors' = {IF t.id = tid THEN [t EXCEPT !.pin = new_pin] ELSE t :
                              t \in tutors}
              /\ resp' = [op |-> op, kind |-> "pin_updated", pin |-> new_pin]
              /\ UNCHANGED <<students, enrollments, payments, enrollment_files,
                             registrations, sessions, attendance, settings, seq>>

admin_student_delete(admin, sid) ==
    LET op == "admin_student_delete"
        gone == {e.id : e \in {x \in enrollments : x.student_id = sid}}
    IN
    /\ resp = NoResp
    /\ IF require_admin(admin) THEN Respond([op |-> op, kind |-> "redirect_admin_login"])
       ELSE /\ attendance' = {a \in attendance : a.student_id # sid}
            /\ enrollment_files' =
                  {f \in enrollment_files : f.enrollment_id \notin gone}
            /\ payments' = {q \in payments : q.enrollment_id \notin gone}
            /\ enrollments' = {e \in enrollments : e.student_id # sid}
            /\ registrations' = {r \in registrations : r.student_id # sid}
            /\ students' = {s \in students : s.id # sid}
            /\ resp' = [op |-> op, kind |-> "redirect_admin_students"]
            /\ UNCHANGED <<tutors, sessions, settings, seq>>

----------------------------------------------------------------------------
(* Admin: settings                                                         *)

\* A mutant: moving the system month lapses the enrollments of the month
\* that ends.
admin_set_system_month_lapsing(admin, month) ==
    LET op == "admin_set_system_month" IN
    /\ resp = NoResp
    /\ IF require_admin(admin) THEN Respond([op |-> op, kind |-> "redirect_admin_login"])
       ELSE IF month = "" THEN Respond([op |-> op, kind |-> "redirect_admin_settings"])
       ELSE /\ settings' = [settings EXCEPT !.current_month = month]
            /\ enrollments' =
                  {IF e.month # month THEN [e EXCEPT !.status = "LAPSED"] ELSE e :
                      e \in enrollments}
            /\ resp' = [op |-> op, kind |-> "redirect_admin_home"]
            /\ UNCHANGED <<students, tutors, payments,
                           enrollment_files, registrations, sessions,
                           attendance, seq>>

admin_set_system_month(admin, month) ==
    LET op == "admin_set_system_month" IN
    /\ resp = NoResp
    /\ IF require_admin(admin) THEN Respond([op |-> op, kind |-> "redirect_admin_login"])
       ELSE IF month = "" THEN Respond([op |-> op, kind |-> "redirect_admin_settings"])
       ELSE /\ settings' = [settings EXCEPT !.current_month = month]
            /\ resp' = [op |-> op, kind |-> "redirect_admin_home"]
            /\ UNCHANGED <<students, tutors, enrollments, payments,
                           enrollment_files, registrations, sessions,
                           attendance, seq>>

admin_set_enrollment(admin, open_val) ==
    LET op == "admin_set_enrollment" IN
    /\ resp = NoResp
    /\ IF require_admin(admin) THEN Respond([op |-> op, kind |-> "redirect_admin_login"])
       ELSE /\ settings' = [settings EXCEPT
                               !.enrollment_open = IF open_val = "1" THEN "1" ELSE "0"]
            /\ resp' = [op |-> op, kind |-> "redirect_admin_settings"]
            /\ UNCHANGED <<students, tutors, enrollments, payments,
                           enrollment_files, registrations, sessions,
                           attendance, seq>>

----------------------------------------------------------------------------
(* Sessions, QR codes and check-in                                         *)

admin_sessions_post(admin, subject_id, tutor_name, tutor_phone) ==
    LET op == "admin_sessions_post"
        known == {t \in tutors : t.name = tutor_name}
        isnew == known = {}
        tutor_id == IF isnew THEN seq.tutors + 1 ELSE (CHOOSE t \in known : TRUE).id
    IN
    /\ resp = NoResp
    /\ IF require_admin(admin) THEN Respond([op |-> op, kind |-> "redirect_admin_login"])
       ELSE \E pin \in (IF isnew THEN gen_pin(pins_taken) ELSE {NULL}) :
              IF \/ isnew /\ \E t \in tutors : t.phone = tutor_phone
                 \/ SqlInt(subject_id) \notin SubjectIds
              \* UNIQUE(phone) or FOREIGN KEY(subject_id) fails: the
              \* sqlite3.IntegrityError escapes the handler
              THEN Respond([op |-> op, kind |-> "server_error"])
              ELSE /\ isnew => seq.tutors < MaxTutorId
                   /\ seq.sessions < MaxSessionId
                   /\ tutors' = IF isnew
                                THEN tutors \cup {[id |-> tutor_id, name |-> tutor_name,
                                                   phone |-> tutor_phone, pin |-> pin]}
                                ELSE tutors
                   /\ sessions' = sessions \cup
                         {[id |-> seq.sessions + 1,
                           subject_id |-> SqlInt(subject_id), tutor_id |-> tutor_id]}
                   /\ seq' = [seq EXCEPT !.sessions = @ + 1,
                                         !.tutors = IF isnew THEN tutor_id ELSE @]
                   /\ resp' = [op |-> op, kind |-> "redirect_admin_sessions"]
                   /\ UNCHANGED <<students, enrollments, payments, enrollment_files,
                                  registrations, attendance, settings>>

\* str(payload) of the dict {'session_id': id, 'date': today}
py_str(payload) == <<"repr", payload.session_id, payload.date>>

\* base64.urlsafe_b64encode without the padding, and its inverse
b64url_encode(text) == <<"b64", text>>
b64url_decode(code) == code[2]

EmptyCode == <<>>
JunkCode == b64url_encode(<<"junk">>)

session_qr(admin, id, today) ==
    LET op == "session_qr"
        se == {x \in sessions : x.id = id /\ x.subject_id \in SubjectIds
                                 /\ \E t \in tutors : t.id = x.tutor_id}
        payload == [session_id |-> id, date |-> today]
    IN
    /\ resp = NoResp
    /\ IF require_admin(admin) THEN Respond([op |-> op, kind |-> "redirect_admin_login"])
       ELSE IF se = {} THEN Respond([op |-> op, kind |-> "not_found"])
       ELSE Respond([op |-> op, kind |-> "session_qr",
                    code |-> b64url_encode(py_str(payload))])

\* No statement of the module imports or defines literal_eval: the call in
\* attend_post raises NameError inside its try block.
literal_eval_defined == FALSE

\* The only assignment to `month` in attend_post follows the `return` of
\* the except clause: the name is never bound when the query reads it.
month_bound == FALSE

\* ast.literal_eval of the decoded text: the payload, or an exception.
literal_eval(text) ==
    IF literal_eval_defined /\ Len(text) = 3 /\ text[1] = "repr"
    THEN {[session_id |-> text[2], date |-> text[3]]}
    ELSE {}

attend_post(code, phone) ==
    LET op == "attend_post"
        decoded == literal_eval(b64url_decode(code))
        payload == CHOOSE x \in decoded : TRUE
        srow == {s \in students : s.phone = phone}
        student_id == (CHOOSE s \in srow : TRUE).id
        ses == {x \in sessions : x.id = payload.session_id}
        subject_id == (CHOOSE x \in ses : TRUE).subject_id
        month == settings.current_month
        enr == {e \in enrollments :
                  /\ e.student_id = student_id /\ e.subject_id = subject_id
                  /\ e.month = month /\ e.status = "ACTIVE"}
    IN
    /\ resp = NoResp
    /\ IF code = EmptyCode \/ phone = ""
       THEN Respond([op |-> op, kind |-> "missing_code_or_phone"])
       ELSE IF decoded = {}
       THEN Respond([op |-> op, kind |-> "bad_code", code |-> code, phone |-> phone])
       ELSE IF srow = {}
       THEN Respond([op |-> op, kind |-> "student_not_found",
                    code |-> code, phone |-> phone])
       ELSE IF ses = {}
       THEN Respond([op |-> op, kind |-> "session_not_found",
                    code |-> code, phone |-> phone])
       ELSE IF ~month_bound
       \* UnboundLocalError escapes the handler
       THEN Respond([op |-> op, kind |-> "server_error",
                    code |-> code, phone |-> phone])
       ELSE IF enr = {}
       THEN Respond([op |-> op, kind |-> "not_active",
                    code |-> code, phone |-> phone])
       ELSE /\ attendance' = attendance \cup
                  {[id |-> seq.attendance + 1, session_id |-> payload.session_id,
                    student_id |-> student_id, date |-> payload.date]}
            /\ seq' = [seq EXCEPT !.attendance = @ + 1]
            /\ resp' = [op |-> op, kind |-> "checked_in",
                        code |-> code, phone |-> phone]
            /\ UNCHANGED <<students, tutors, enrollments, payments,
                           enrollment_files, registrations, sessions, settings>>

----------------------------------------------------------------------------
(* Requests                                                                *)

DefaultRequest ==
    [phone |-> "p1", pin |-> "11111", subject_ids |-> <<"5">>, nfiles |-> 1,
     amount_paid |-> 250, paid_check |-> FALSE]

\* One form for each way of being malformed (the handler returns before it
\* reads the other fields).
MalformedRequests ==
    {[DefaultRequest EXCEPT !.phone = ""],
     [DefaultRequest EXCEPT !.pin = BadPin],
     [DefaultRequest EXCEPT !.nfiles = 0],
     [DefaultRequest EXCEPT !.nfiles = 3],
     [DefaultRequest EXCEPT !.amount_paid = NotANumber]}

\* The PINs the registration forms type.
FormPins == {"11111", "22222"}

\* Registration forms with every subject list and amount.
RegisterRequests ==
    [phone : Phones, pin : FormPins, subject_ids : SubjectLists, nfiles : {1},
     amount_paid : Amounts, paid_check : {FALSE}]
    \cup MalformedRequests

\* Registration forms for one subject at its price.
SimpleRequests ==
    [phone : Phones, pin : Pins, subject_ids : {<<"5">>, <<"6">>}, nfiles : {1},
     amount_paid : {250, 350}, paid_check : {FALSE}]

\* Registration forms for the subject the sessions teach.
AttendRequests ==
    [phone : Phones, pin : FormPins, subject_ids : {<<"5">>},
     nfiles : {1}, amount_paid : {250}, paid_check : {FALSE}]

\* Registration forms with one or two proof files, for one subject or for
\* two of which the student may hold one already.
FrameRequests ==
    [phone : {"p1"}, pin : {"11111"},
     subject_ids : {<<"5">>, <<"6">>, <<"5", "6">>},
     nfiles : {1, 2}, amount_paid : {250, 500}, paid_check : {FALSE}]

\* ?token= of a status request: absent, empty, or the token of a row
TokenInputs == {NULL, "", token_urlsafe(1), token_urlsafe(2)}
EnrollmentIds == 1..(MaxEnrollments + 1)
SessionIds == 1..(MaxSessionId + 1)
\* ?code= of a check-in: every code session_qr can produce, a code that
\* is not one, and none
CodeInputs ==
    {b64url_encode(py_str([session_id |-> id, date |-> d])) :
        id \in SessionIds, d \in Dates}
    \cup {JunkCode, EmptyCode}
Actions == {"approve", "lapse", "archive"}

do_register(R) ==
    /\ UNCHANGED conns
    /\ \E r \in R : register(r.phone, r.pin, r.subject_ids, r.nfiles,
                             r.amount_paid, r.paid_check)
do_status ==
    /\ UNCHANGED conns
    /\ \E id \in EnrollmentIds, token \in TokenInputs : status(id, token)
do_enrollment_action(N) ==
    /\ UNCHANGED conns
    /\ \E admin \in BOOLEAN, id \in EnrollmentIds, action \in Actions,
          n \in N :
           enrollment_action(admin, id, action, n)
do_admin_student_add ==
    /\ UNCHANGED conns
    /\ \E admin \in BOOLEAN, phone \in Phones \cup {""} : admin_student_add(admin, phone)
do_admin_student_reset_pin ==
    /\ UNCHANGED conns
    /\ \E admin \in BOOLEAN, sid \in 1..MaxStudentId : admin_student_reset_pin(admin, sid)
do_admin_tutor_add ==
    /\ UNCHANGED conns
    /\ \E admin \in BOOLEAN, name \in TutorNames, phone \in TutorPhones :
           admin_tutor_add(admin, name, phone)
do_admin_tutor_reset_pin ==
    /\ UNCHANGED conns
    /\ \E admin \in BOOLEAN, tid \in 1..MaxTutorId : admin_tutor_reset_pin(admin, tid)
do_admin_student_delete ==
    /\ UNCHANGED conns
    /\ \E admin \in BOOLEAN, sid \in 1..MaxStudentId : admin_student_delete(admin, sid)

do_admin_set_system_month ==
    /\ UNCHANGED conns
    /\ \E admin \in BOOLEAN, month \in Months \cup {""} :
           admin_set_system_month(admin, month)
do_admin_set_enrollment ==
    /\ UNCHANGED conns
    /\ \E admin \in BOOLEAN, open_val \in {"0", "1"} :
           admin_set_enrollment(admin, open_val)
do_admin_sessions_post ==
    /\ UNCHANGED conns
    /\ \E admin \in BOOLEAN, subject_id \in SubjectStrs, name \in TutorNames,
          phone \in TutorPhones :
           admin_sessions_post(admin, subject_id, name, phone)
do_session_qr ==
    /\ UNCHANGED conns
    /\ \E admin \in BOOLEAN, id \in SessionIds, today \in Dates :
           session_qr(admin, id, today)
do_attend_post ==
    /\ UNCHANGED conns
    /\ \E code \in CodeInputs, phone \in Phones \cup {""} : attend_post(code, phone)

\* The fee calculation of register, on its own: the amount due for `count`
\* subjects of `grade`.
fee_quote(grade, count) ==
    /\ resp = NoResp
    /\ Respond([op |-> "fee_quote", grade |-> grade, count |-> count,
               total_due |-> total_due(grade, count)])

do_fee_quote ==
    /\ UNCHANGED conns
    /\ \E grade \in Grades, count \in 0..MaxCount : fee_quote(grade, count)


\* The form has at most MaxBoxes subject boxes of one grade.
MaxBoxes == 9

\* The browser recomputes the amount shown to the payer.
updateFees(grade, count) ==
    /\ resp = NoResp
    /\ Respond([op |-> "updateFees", grade |-> grade, count |-> count,
                total |-> ebtaTotalDue(grade, count)])

do_updateFees ==
    /\ UNCHANGED conns
    /\ \E grade \in Grades \cup {""}, count \in 0..MaxBoxes : updateFees(grade, count)

----------------------------------------------------------------------------
(* POST /register on two worker threads                                    *)

\* The server runs one request per thread and get_db() opens a connection
\* per request. A connection's INSERT opens a transaction that holds the
\* database's write lock until commit() or close(); its SELECTs read the
\* committed rows and its own uncommitted ones. A second writer waits for
\* the lock (sqlite3's busy timeout).
Workers == {1, 2}

IdleConn ==
    [pc |-> "idle", req |-> DefaultRequest, isnew |-> FALSE, sid |-> 0,
     existing |-> {}, writing |-> FALSE, kind |-> "none", created |-> <<>>]

\* Well-formed forms for one seeded subject.
RaceRequests ==
    [phone : Phones, pin : FormPins, subject_ids : {<<"5">>, <<"6">>},
     nfiles : {1}, amount_paid : {250}, paid_check : {FALSE}]

lock_free(w) == \A v \in Workers \ {w} : ~conns[v].writing

\* The connection is closed with this answer; what it wrote and did not
\* commit is rolled back.
conn_done(w, kind, created) ==
    conns' = [conns EXCEPT ![w].pc = "done", ![w].writing = FALSE,
                           ![w].kind = kind, ![w].created = created]

\* The form is validated, the student row is looked up by phone, and the
\* PIN is compared (known phone) or searched for (new phone).
register_lookup(w, r) ==
    LET srow == {s \in students : s.phone = r.phone}
        isnew == srow = {}
    IN
    /\ conns[w].pc = "idle"
    /\ settings.enrollment_open = "1" /\ is_valid_pin(r.pin)
    /\ IF ~isnew /\ pin_mismatch((CHOOSE s \in srow : TRUE).pin, r.pin)
       THEN conns' = [conns EXCEPT ![w].req = r, ![w].pc = "done",
                                   ![w].kind = "incorrect_pin"]
       ELSE IF isnew /\ pin_in_use(r.pin)
       THEN conns' = [conns EXCEPT ![w].req = r, ![w].pc = "done",
                                   ![w].isnew = TRUE, ![w].kind = "pin_in_use"]
       ELSE conns' = [conns EXCEPT
                        ![w].req = r, ![w].isnew = isnew,
                        ![w].sid = IF isnew THEN 0
                                   ELSE (CHOOSE s \in srow : TRUE).id,
                        ![w].pc = IF isnew THEN "insert_student"
                                  ELSE "read_existing"]
    /\ UNCHANGED <<db, resp>>

\* INSERT INTO students: the connection takes the write lock; the UNIQUE
\* constraint on phone_whatsapp raises sqlite3.IntegrityError, which
\* register does not catch.
register_insert_student(w) ==
    LET c == conns[w] IN
    /\ c.pc = "insert_student"
    /\ lock_free(w)
    /\ seq.students + 1 <= MaxStudentId
    /\ IF \E s \in students : s.phone = c.req.phone
       THEN conn_done(w, "server_error", <<>>)
       ELSE conns' = [conns EXCEPT ![w].sid = seq.students + 1,
                                   ![w].writing = TRUE,
                                   ![w].pc = "read_existing"]
    /\ UNCHANGED <<db, resp>>

\* The files are saved, then `existing` is read for the system month and
\* the amount is compared with the total.
register_read_existing(w) ==
    LET c == conns[w]
        month == settings.current_month
        existing == {Str(e.subject_id) :
                        e \in {x \in enrollments :
                                 x.student_id = c.sid /\ x.month = month}}
        grade == Subjects[SqlInt(c.req.subject_ids[1])]
        total == total_due(grade, Len(c.req.subject_ids))
    IN
    /\ c.pc = "read_existing"
    /\ IF amount_mismatch(c.req.amount_paid, total)
       THEN conn_done(w, "payment_error", <<>>)
       ELSE conns' = [conns EXCEPT ![w].existing = existing,
                                   ![w].pc = "insert_rows"]
    /\ UNCHANGED <<db, resp>>

\* The loop over subject_ids inserts a row for every id outside the
\* `existing` read before, then commit(): the student row (new phone) and
\* the enrollment, payment and file rows become visible together.
register_commit(w) ==
    LET c == conns[w]
        r == c.req
        month == settings.current_month
        todo == SelectSeq(r.subject_ids, LAMBDA x : x \notin c.existing)
        base == seq.enrollments
        n == Len(todo)
    IN
    /\ c.pc = "insert_rows"
    /\ lock_free(w)
    /\ base + n <= MaxEnrollments
    /\ students' = IF c.isnew
                   THEN students \cup
                           {[id |-> c.sid, phone |-> r.phone, pin |-> r.pin]}
                   ELSE students
    /\ enrollments' = enrollments \cup
          {[id |-> base + i, student_id |-> c.sid,
            subject_id |-> SqlInt(todo[i]), month |-> month,
            status |-> "PENDING", payment_ref |-> payment_ref_for(base + i),
            amount_paid |-> r.amount_paid,
            status_token |-> token_urlsafe(base + i)] : i \in 1..n}
    /\ payments' = payments \cup
          {[id |-> seq.payments + i, enrollment_id |-> base + i,
            amount |-> r.amount_paid, reference |-> payment_ref_for(base + i)] : i \in 1..n}
    /\ enrollment_files' = enrollment_files \cup
          {[id |-> seq.enrollment_files + (i - 1) * r.nfiles + k,
            enrollment_id |-> base + i, file_path |-> k] :
            i \in 1..n, k \in 1..r.nfiles}
    /\ seq' = [seq EXCEPT
                 !.students = IF c.isnew THEN c.sid ELSE @,
                 !.enrollments = base + n,
                 !.payments = @ + n,
                 !.enrollment_files = @ + n * r.nfiles]
    /\ conn_done(w, IF n = 0 THEN "no_change"
                    ELSE IF n = 1 THEN "redirect_status" ELSE "submitted",
                 [i \in 1..n |-> <<base + i, token_urlsafe(base + i)>>])
    /\ UNCHANGED <<tutors, registrations, sessions, attendance, settings, resp>>

do_register_lookup == \E w \in Workers, r \in RaceRequests : register_lookup(w, r)
do_register_insert_student == \E w \in Workers : register_insert_student(w)
do_register_read_existing == \E w \in Workers : register_read_existing(w)
do_register_commit == \E w \in Workers : register_commit(w)

----------------------------------------------------------------------------
(* Specifications                                                          *)

EmptySeq ==
    [students |-> 0, tutors |-> 0, enrollments |-> 0, payments |-> 0,
     enrollment_files |-> 0, registrations |-> 0, sessions |-> 0,
     attendance |-> 0]

\* init_db on a fresh database file: empty tables, the system month is the
\* month of the start-up date, enrollment is open.
Init ==
    /\ students = {} /\ tutors = {} /\ enrollments = {} /\ payments = {}
    /\ enrollment_files = {} /\ registrations = {} /\ sessions = {}
    /\ attendance = {}
    /\ seq = EmptySeq
    /\ settings = [current_month |-> "2026-11", enrollment_open |-> "1"]
    /\ resp = NoResp
    /\ conns = [w \in Workers |-> IdleConn]

\* Registration, the status page and the approval workflow.
Next ==
    \/ finish
    \/ do_register(RegisterRequests)
    \/ do_status
    \/ do_enrollment_action(QuietNotifier)

Spec == Init /\ [][Next]_vars

\* The fee calculator over every grade and subject count.
FeeNext == finish \/ do_fee_quote

FeeSpec == Init /\ [][FeeNext]_vars

\* The fee shown by the form next to the fee the server requires.
ClientFeeNext == finish \/ do_fee_quote \/ do_updateFees

ClientFeeSpec == Init /\ [][ClientFeeNext]_vars

\* A database that predates the PIN column's use: the students.pin column
\* is nullable (init_db) and enrollment_action handles a student row without
\* a PIN. One such student holds one PENDING enrollment.
InitLegacy ==
    /\ students = {[id |-> 1, phone |-> "p1", pin |-> NULL]}
    /\ tutors = {}
    /\ enrollments = {[id |-> 1, student_id |-> 1, subject_id |-> 5,
                       month |-> "2026-11", status |-> "PENDING",
                       payment_ref |-> 1, amount_paid |-> 250,
                       status_token |-> token_urlsafe(1)]}
    /\ payments = {[id |-> 1, enrollment_id |-> 1, amount |-> 250,
                    reference |-> 1]}
    /\ enrollment_files = {[id |-> 1, enrollment_id |-> 1, file_path |-> 1]}
    /\ registrations = {} /\ sessions = {} /\ attendance = {}
    /\ seq = [EmptySeq EXCEPT !.students = 1, !.enrollments = 1,
                              !.payments = 1, !.enrollment_files = 1]
    /\ settings = [current_month |-> "2026-11", enrollment_open |-> "1"]
    /\ resp = NoResp
    /\ conns = [w \in Workers |-> IdleConn]

\* Registration and approval starting from the legacy database.
ApproveNext ==
    \/ finish
    \/ do_register(SimpleRequests)
    \/ do_enrollment_action(QuietNotifier)

ApproveSpec == InitLegacy /\ [][ApproveNext]_vars

\* Every handler that issues or checks a PIN.
PinNext ==
    \/ finish
    \/ do_register(SimpleRequests)
    \/ do_enrollment_action(QuietNotifier)
    \/ do_admin_student_add
    \/ do_admin_student_reset_pin
    \/ do_admin_tutor_add
    \/ do_admin_tutor_reset_pin
    \/ do_admin_sessions_post

PinSpec == InitLegacy /\ [][PinNext]_vars

\* Sessions, QR codes and check-in, with the month moving.
AttendNext ==
    \/ finish
    \/ do_register(AttendRequests)
    \/ do_enrollment_action(QuietNotifier)
    \/ do_admin_sessions_post
    \/ do_session_qr
    \/ do_attend_post
    \/ do_admin_set_system_month

AttendSpec == Init /\ [][AttendNext]_vars

\* Every handler that reads or writes an enrollment row.
FrameNext ==
    \/ finish
    \/ do_register(FrameRequests)
    \/ do_status
    \/ do_enrollment_action(QuietNotifier)
    \/ do_attend_post
    \/ do_admin_set_system_month
    \/ do_admin_student_delete

FrameSpec == Init /\ [][FrameNext]_vars

\* A database with one student who has no enrollment yet (the admin added
\* the student, gen_pin chose the PIN).
InitKnown ==
    /\ students = {[id |-> 1, phone |-> "p1", pin |-> "11111"]}
    /\ tutors = {} /\ enrollments = {} /\ payments = {}
    /\ enrollment_files = {} /\ registrations = {} /\ sessions = {}
    /\ attendance = {}
    /\ seq = [EmptySeq EXCEPT !.students = 1]
    /\ settings = [current_month |-> "2026-11", enrollment_open |-> "1"]
    /\ resp = NoResp
    /\ conns = [w \in Workers |-> IdleConn]

\* Two registrations side by side, on the fresh database or on the one
\* with a known student.
RaceNext ==
    \/ do_register_lookup
    \/ do_register_insert_student
    \/ do_register_read_existing
    \/ do_register_commit

RaceSpec == (Init \/ InitKnown) /\ [][RaceNext]_vars

----------------------------------------------------------------------------
(* Properties                                                              *)

Accepted == {"redirect_status", "submitted", "no_change"}

EnrollmentRow(id) == CHOOSE e \in enrollments : e.id = id
HasEnrollment(id) == \E e \in enrollments : e.id = id

\* C1: there is at most one Enrollment row per (student, subject, month).
C1_OneEnrollmentPerKey ==
    \A a \in enrollments : \A b \in enrollments :
        (a.student_id = b.student_id /\ a.subject_id = b.subject_id
            /\ a.month = b.month) => a.id = b.id

\* C2: the amount required for n >= 1 subjects of a grade is
\* subtotal - discount with subtotal = rate * n, rate 350 for G13, 250 for
\* G12 and 200 otherwise; the discount is 0 below 3 subjects and otherwise
\* the integer nearest to 10% (G13) or 5% (other grades) of the subtotal,
\* a tie going to the even integer; G12 is due 712 for 3 and 1188 for 5.
C2_AmountDue ==
    (resp.op = "fee_quote" /\ resp.count >= 1) =>
        LET rate == CASE resp.grade = "G13" -> 350
                      [] resp.grade = "G12" -> 250
                      [] OTHER -> 200
            subtotal == rate * resp.count
            pct == IF resp.grade = "G13" THEN 10 ELSE 5
            discount == subtotal - resp.total_due
            err == 100 * discount - pct * subtotal
        IN  /\ resp.count < 3 => discount = 0
            /\ resp.count >= 3 =>
                  /\ -50 <= err /\ err <= 50
                  /\ (err = 50 \/ err = -50) => discount % 2 = 0
            /\ (resp.grade = "G12" /\ resp.count = 3) => resp.total_due = 712
            /\ (resp.grade = "G12" /\ resp.count = 5) => resp.total_due = 1188

C2_Witness ==
    /\ resp.op = "fee_quote" /\ resp.grade = "G12" /\ resp.count = 3
    /\ resp.total_due = 712

\* C3: a registration whose amount differs from the computed total, in
\* either direction, gets the payment error naming the required amount and
\* creates no enrollment.
C3_MismatchRejected ==
    [][(resp'.op = "register" /\ "total_due" \in DOMAIN resp'
            /\ resp'.amount_paid # resp'.total_due)
        => /\ resp'.kind = "payment_error"
           /\ enrollments' = enrollments]_vars

C3_Witness ==
    /\ resp.op = "register" /\ resp.kind = "payment_error"
    /\ resp.amount_paid > resp.total_due
    /\ enrollments # {}

\* C6: for an existing enrollment, a status request with the stored token
\* gets the status view and one with a token that is not the stored token
\* gets Forbidden.
C6_TokenGate ==
    (resp.op = "status" /\ HasEnrollment(resp.id) /\ resp.token # NULL) =>
        IF resp.token = EnrollmentRow(resp.id).status_token
        THEN resp.kind = "view"
        ELSE resp.kind = "forbidden"

\* C6 as amended: the token that is refused is a non-empty one.
C6_TokenGateNonEmpty ==
    (resp.op = "status" /\ HasEnrollment(resp.id)
        /\ resp.token # NULL /\ resp.token # "") =>
        IF resp.token = EnrollmentRow(resp.id).status_token
        THEN resp.kind = "view"
        ELSE resp.kind = "forbidden"

C6_Witness ==
    /\ resp.op = "status" /\ resp.kind = "forbidden"
    /\ HasEnrollment(resp.id)
    /\ resp.token \in Tokens
    /\ resp.token # EnrollmentRow(resp.id).status_token

\* C7: for an existing enrollment in any status, a status request without
\* a token parameter gets the status view.
C7_NoTokenGranted ==
    (resp.op = "status" /\ HasEnrollment(resp.id) /\ resp.token = NULL) =>
        /\ resp.kind = "view"
        /\ resp.status = EnrollmentRow(resp.id).status

C7_Witness ==
    /\ resp.op = "status" /\ resp.token = NULL /\ resp.kind = "view"
    /\ resp.status = "LAPSED"

\* C8: approve makes an existing enrollment ACTIVE and lapse makes it
\* LAPSED whatever its status was, and an enrollment that has left PENDING
\* is never PENDING again.
C8_StatusMachine ==
    [][/\ \A e \in enrollments :
            (resp'.op = "enrollment_action"
                /\ resp'.kind = "redirect_admin_enrollments"
                /\ resp'.id = e.id /\ resp'.action \in {"approve", "lapse"})
            => \E f \in enrollments' :
                  /\ f.id = e.id
                  /\ f.status = IF resp'.action = "approve" THEN "ACTIVE"
                                ELSE "LAPSED"
       /\ \A e \in enrollments : \A f \in enrollments' :
            (e.id = f.id /\ e.status # "PENDING") => f.status # "PENDING"]_vars

C8_Witness ==
    /\ resp.op = "enrollment_action" /\ resp.action = "approve"
    /\ resp.kind = "redirect_admin_enrollments"
    /\ \E e \in enrollments : e.id = resp.id /\ e.status = "ACTIVE"
    /\ \E e \in enrollments : e.status = "LAPSED"

\* C4: register rejects a known phone presented with a PIN other than the
\* stored one, and a new phone presented with a PIN some student or tutor
\* holds; neither rejection writes anything.
C4_PinChecks ==
    [][(resp'.op = "register" /\ "pin" \in DOMAIN resp') =>
        LET known == {s \in students : s.phone = resp'.phone}
            held == \/ \E s \in students : s.pin = resp'.pin
                    \/ \E t \in tutors : t.pin = resp'.pin
        IN  /\ (\E s \in known : s.pin # resp'.pin) =>
                  (resp'.kind = "incorrect_pin" /\ UNCHANGED db)
            /\ (known = {} /\ held) =>
                  (resp'.kind = "pin_in_use" /\ UNCHANGED db)]_vars

C4_Witness ==
    /\ resp.op = "register" /\ resp.kind = "pin_in_use"
    /\ \E t \in tutors : t.pin = resp.pin
    /\ \E s \in students : s.pin # NULL

\* C5: no two accounts among the students and the tutors hold the same PIN.
C5_PinsUnique ==
    LET accounts == {<<"student", s.id, s.pin>> : s \in students} \cup
                    {<<"tutor", t.id, t.pin>> : t \in tutors}
    IN  \A a \in accounts : \A b \in accounts :
            (a # b /\ a[3] # NULL) => a[3] # b[3]

C5_Witness ==
    /\ resp.op = "enrollment_action" /\ "notify" \in DOMAIN resp
    /\ \E m \in resp.notify : m.issued
    /\ Cardinality(students) = 2 /\ tutors # {}
    /\ \A s \in students : s.pin # NULL

\* C9: an approve call for a student who holds a PIN, as every student does
\* once approve has been called for them, issues no new PIN: the student
\* keeps the PIN, the enrollment is ACTIVE and the enrollments that were
\* ACTIVE stay ACTIVE.
C9_ApproveKeepsPin ==
    [][\A e \in enrollments :
        (resp'.op = "enrollment_action"
            /\ resp'.kind = "redirect_admin_enrollments"
            /\ resp'.action = "approve" /\ resp'.id = e.id)
        => /\ \E f \in enrollments' : f.id = e.id /\ f.status = "ACTIVE"
           /\ \A s \in students :
                (s.id = e.student_id /\ s.pin # NULL) => s \in students'
           /\ \A s \in students' : s.id = e.student_id => s.pin # NULL
           /\ \A g \in enrollments : g.status = "ACTIVE" => g \in enrollments']_vars

\* The second approve for the student of the legacy database, whose first
\* PIN an approve call issued.
C9_Witness ==
    /\ resp.op = "enrollment_action" /\ "notify" \in DOMAIN resp
    /\ resp.action = "approve"
    /\ \E m \in resp.notify : ~m.issued /\ m.phone = "p1"
    /\ \E s \in students : s.id = 1 /\ s.pin # NULL
    /\ \E a \in enrollments : \E b \in enrollments :
          /\ a.id # b.id /\ a.student_id = 1 /\ b.student_id = 1
          /\ a.status = "ACTIVE" /\ b.status = "ACTIVE"

\* C10: a check-in with a code of the QR generator for an existing session
\* and the phone of a student with an ACTIVE enrollment for the session's
\* subject in the system month succeeds and records an Attendance row for
\* that session, student and date.
C10_CheckInSucceeds ==
    (resp.op = "attend_post" /\ "code" \in DOMAIN resp
        /\ \E ses \in sessions : \E d \in Dates : \E s \in students :
              /\ resp.code = b64url_encode(py_str([session_id |-> ses.id, date |-> d]))
              /\ s.phone = resp.phone
              /\ \E e \in enrollments :
                    /\ e.student_id = s.id /\ e.subject_id = ses.subject_id
                    /\ e.month = settings.current_month /\ e.status = "ACTIVE")
    => /\ resp.kind = "checked_in"
       /\ \E a \in attendance : \E s \in students :
             /\ s.phone = resp.phone /\ a.student_id = s.id
             /\ resp.code = b64url_encode(py_str([session_id |-> a.session_id,
                                                  date |-> a.date]))

\* C11: a check-in with a code of the QR generator inserts no Attendance
\* row and answers NotFound when the phone matches no student or the
\* session does not exist, and NotActive when the student has no ACTIVE
\* enrollment for the session's subject in the system month.
C11_CheckInErrors ==
    (resp.op = "attend_post" /\ "code" \in DOMAIN resp
        /\ \E id \in SessionIds : \E d \in Dates :
              resp.code = b64url_encode(py_str([session_id |-> id, date |-> d])))
    => LET payload == [session_id |-> b64url_decode(resp.code)[2],
                       date |-> b64url_decode(resp.code)[3]]
           srow == {s \in students : s.phone = resp.phone}
           ses == {x \in sessions : x.id = payload.session_id}
           active == {e \in enrollments :
                        /\ \E s \in srow : e.student_id = s.id
                        /\ \E x \in ses : e.subject_id = x.subject_id
                        /\ e.month = settings.current_month
                        /\ e.status = "ACTIVE"}
       IN  /\ srow = {} => resp.kind = "student_not_found"
           /\ (srow # {} /\ ses = {}) => resp.kind = "session_not_found"
           /\ (srow # {} /\ ses # {} /\ active = {}) => resp.kind = "not_active"

\* C12: two registrations that both looked a phone up before any student
\* had it leave exactly one student row for the phone, and the one that
\* loses is answered with a handled rejection, not an escaped exception.
C12_SamePhoneRace ==
    \A a \in Workers : \A b \in Workers \ {a} :
        (/\ conns[a].pc = "done" /\ conns[b].pc = "done"
         /\ conns[a].isnew /\ conns[b].isnew
         /\ conns[a].req.phone = conns[b].req.phone
         /\ conns[a].kind \in Accepted)
        => /\ Cardinality({s \in students : s.phone = conns[a].req.phone}) = 1
           /\ conns[b].kind # "server_error"

\* C13: two registrations for two new phones that choose the same new PIN
\* never both end with a student holding that PIN.
C13_SamePinRace ==
    \A a \in Workers : \A b \in Workers \ {a} :
        (/\ conns[a].pc = "done" /\ conns[b].pc = "done"
         /\ conns[a].isnew /\ conns[b].isnew
         /\ conns[a].req.phone # conns[b].req.phone
         /\ conns[a].req.pin = conns[b].req.pin)
        => Cardinality({s \in students : s.pin = conns[a].req.pin}) <= 1

\* C17: two registrations of one known student for the same subject and
\* month that overlap in time leave at most one enrollment row for that
\* (student, subject, month).
C17_SameSubjectRace ==
    \A a \in Workers : \A b \in Workers \ {a} :
        (/\ conns[a].pc = "done" /\ conns[b].pc = "done"
         /\ ~conns[a].isnew /\ ~conns[b].isnew
         /\ conns[a].sid = conns[b].sid
         /\ conns[a].req.subject_ids = conns[b].req.subject_ids)
        => \A id \in SubjectIds :
              Cardinality({e \in enrollments :
                             /\ e.student_id = conns[a].sid
                             /\ e.subject_id = id
                             /\ e.month = settings.current_month}) <= 1

\* The student row of a phone number, and the subjects a registration
\* names that the student holds for the system month.
StudentOf(phone) == CHOOSE s \in students : s.phone = phone

\* C14: every enrollment a registration creates stores as amount_paid the
\* fee calculator's total for the grade of the request and the number of
\* subjects the request names, the skipped ones included.
C14_AmountStored ==
    (resp.op = "register" /\ resp.kind \in Accepted) =>
        \A i \in 1..Len(resp.created) :
            /\ HasEnrollment(resp.created[i][1])
            /\ EnrollmentRow(resp.created[i][1]).amount_paid =
                  total_due(Subjects[SqlInt(resp.subject_ids[1])],
                            Len(resp.subject_ids))

\* A request for two subjects of which one was skipped.
C14_Witness ==
    /\ resp.op = "register" /\ resp.kind = "redirect_status"
    /\ Len(resp.subject_ids) = 2 /\ Len(resp.created) = 1
    /\ EnrollmentRow(resp.created[1][1]).amount_paid = 500

\* C15: an accepted registration returns one (id, token) pair per
\* enrollment row it created, the token being the row's status_token; when
\* the student holds every requested subject for the month it creates no
\* enrollment, payment or file row and answers "No change".
C15_CreatedPairs ==
    [][(resp'.op = "register" /\ resp'.kind \in Accepted) =>
        LET made == enrollments' \ enrollments
            pairs == {resp'.created[i] : i \in 1..Len(resp'.created)}
            known == {s \in students : s.phone = resp'.phone}
            held == \A i \in 1..Len(resp'.subject_ids) :
                       \E e \in enrollments : \E s \in known :
                          /\ e.student_id = s.id
                          /\ Str(e.subject_id) = resp'.subject_ids[i]
                          /\ e.month = settings.current_month
        IN  /\ pairs = {<<e.id, e.status_token>> : e \in made}
            /\ Len(resp'.created) = Cardinality(made)
            /\ held => /\ resp'.kind = "no_change"
                       /\ made = {}
                       /\ payments' = payments
                       /\ enrollment_files' = enrollment_files
            /\ resp'.kind = "no_change" <=> made = {}]_vars

C15_Witness ==
    /\ resp.op = "register" /\ resp.kind = "no_change"
    /\ Len(resp.subject_ids) = 2
    /\ Cardinality(enrollments) = 2

\* C16: a new enrollment row carries a non-empty status_token, and no step
\* changes the status_token of a row that exists.
C16_TokenFixed ==
    [][\A f \in enrollments' :
          /\ f.status_token # "" /\ f.status_token # NULL
          /\ \A e \in enrollments : e.id = f.id => e.status_token = f.status_token]_vars

C16_Witness ==
    /\ resp.op = "enrollment_action" /\ resp.kind = "redirect_admin_enrollments"
    /\ resp.action = "lapse"
    /\ \E e \in enrollments :
          /\ e.id = resp.id /\ e.status = "LAPSED"
          /\ e.status_token = token_urlsafe(e.id)
    /\ settings.current_month # "2026-11"

\* C19: every enrollment an accepted registration created is PENDING, has
\* the payment reference derived from its own id, exactly one payment row,
\* with that reference and the enrollment's amount, and one file row per
\* uploaded proof file.
C19_RowsPerEnrollment ==
    (resp.op = "register" /\ resp.kind \in Accepted) =>
        \A i \in 1..Len(resp.created) :
            LET eid == resp.created[i][1]
                e == EnrollmentRow(eid)
                pay == {q \in payments : q.enrollment_id = eid}
                files == {f \in enrollment_files : f.enrollment_id = eid}
            IN  /\ HasEnrollment(eid)
                /\ e.status = "PENDING"
                /\ e.payment_ref = payment_ref_for(eid)
                /\ \A o \in enrollments : o.id # eid => o.payment_ref # e.payment_ref
                /\ Cardinality(pay) = 1
                /\ \A q \in pay : q.reference = e.payment_ref
                                    /\ q.amount = e.amount_paid
                /\ Cardinality(files) = resp.stored
                /\ resp.stored \in {1, 2}

C19_Witness ==
    /\ resp.op = "register" /\ resp.kind = "submitted"
    /\ Len(resp.created) = 2 /\ resp.stored = 2
    /\ Cardinality(enrollment_files) = 4

\* C20: a step that changes the status of an existing enrollment is an
\* admin approve or lapse, and a step that removes an enrollment row is an
\* admin student deletion.
C20_StatusFrame ==
    [][\A e \in enrollments :
          /\ (\E f \in enrollments' : f.id = e.id /\ f.status # e.status)
                => /\ resp'.op = "enrollment_action"
                   /\ resp'.action \in {"approve", "lapse"}
                   /\ resp'.id = e.id
          /\ (\A f \in enrollments' : f.id # e.id)
                => resp'.op = "admin_student_delete"]_vars

\* A repeated registration for a subject that is ACTIVE already.
C20_Witness ==
    /\ resp.op = "register" /\ resp.kind = "redirect_status"
    /\ Len(resp.subject_ids) = 2
    /\ \E e \in enrollments :
          /\ e.student_id = StudentOf(resp.phone).id
          /\ e.status = "ACTIVE" /\ Str(e.subject_id) \in Range(resp.subject_ids)

\* C18: for every grade and every count of checked boxes from 0 to 9 the
\* total the form displays is the total the server requires.
C18_ClientServerFee ==
    (resp.op = "updateFees" /\ resp.grade # "" /\ resp.count <= 9) =>
        resp.total = total_due(resp.grade, resp.count)

----------------------------------------------------------------------------
(* Approval and its notifications                                          *)

\* Registration and approval from the legacy database, with every behaviour
\* of the notifier.
NotifyNext ==
    \/ finish
    \/ do_register(SimpleRequests)
    \/ do_enrollment_action(Notifiers)

NotifySpec == InitLegacy /\ [][NotifyNext]_vars

\* C21: once an admin's approve has run, whatever the notifier calls did
\* (sent, failed or raised, e-mail or SMS), the response is the normal
\* redirect to the enrollments list, the enrollment is ACTIVE in the
\* database, and the PIN the notification carries is the student's PIN in
\* the database.
C21_ApproveSurvivesNotifier ==
    (resp.op = "enrollment_action" /\ resp.action = "approve"
        /\ resp.kind # "redirect_admin_login") =>
        /\ resp.kind = "redirect_admin_enrollments"
        /\ \A e \in enrollments : e.id = resp.id => e.status = "ACTIVE"
        /\ \A m \in resp.notify :
              \E s \in students : s.phone = m.phone /\ s.pin = m.pin

\* An approval that issued a PIN and whose e-mail call raised, so that the
\* SMS was never attempted.
C21_Witness ==
    /\ resp.op = "enrollment_action" /\ resp.action = "approve"
    /\ resp.kind = "redirect_admin_enrollments"
    /\ \E m \in resp.notify : m.issued
    /\ resp.calls = <<[channel |-> "email", outcome |-> "raised"]>>
    /\ \E e \in enrollments : e.id = resp.id /\ e.status = "ACTIVE"

\* C22: an admin's lapse sets the status of the target enrollment to LAPSED
\* and changes nothing else: every other enrollment row, every other column
\* of the target row, every student (PINs included) and every other table
\* is as before, and no notifier call is made.
C22_LapseFrame ==
    [][(resp'.op = "enrollment_action" /\ resp'.action = "lapse"
          /\ resp'.kind = "redirect_admin_enrollments") =>
          /\ enrollments' =
                {IF e.id = resp'.id THEN [e EXCEPT !.status = "LAPSED"] ELSE e :
                    e \in enrollments}
          /\ resp'.calls = <<>>
          /\ UNCHANGED <<students, tutors, payments, enrollment_files,
                         registrations, sessions, attendance, settings,
                         seq>>]_vars

\* A lapse of one enrollment of a student who has a PIN and holds another
\* enrollment that is not LAPSED.
C22_Witness ==
    /\ resp.op = "enrollment_action" /\ resp.action = "lapse"
    /\ resp.kind = "redirect_admin_enrollments"
    /\ \E e, f \in enrollments :
          /\ e.id = resp.id /\ e.status = "LAPSED"
          /\ f.id # e.id /\ f.status # "LAPSED"
          /\ \E s \in students : s.id = e.student_id /\ s.pin # NULL

\* C23: every check-in with a code of the QR generator for an existing
\* session by a student with an ACTIVE enrollment for the session's subject
\* in the system month succeeds and adds one Attendance row, whether or not
\* a row for the same session, student and date exists already: a second
\* check-in with the same code leaves two rows.
C23_NoDeDuplication ==
    [][(resp'.op = "attend_post" /\ "code" \in DOMAIN resp'
          /\ \E ses \in sessions : \E d \in Dates : \E s \in students :
                /\ resp'.code =
                      b64url_encode(py_str([session_id |-> ses.id, date |-> d]))
                /\ s.phone = resp'.phone
                /\ \E e \in enrollments :
                      /\ e.student_id = s.id /\ e.subject_id = ses.subject_id
                      /\ e.month = settings.current_month
                      /\ e.status = "ACTIVE")
        => /\ resp'.kind = "checked_in"
           /\ Cardinality(attendance') = Cardinality(attendance) + 1
           /\ attendance \subseteq attendance']_vars

\* C24: a check-in whose code is one the QR generator produces for a session
\* id and a date is never answered "Bad code.", and decoding the code as the
\* check-in does yields that session id and that date.
C24_QrRoundTrip ==
    \A id \in SessionIds : \A d \in Dates :
        LET code == b64url_encode(py_str([session_id |-> id, date |-> d])) IN
        (resp.op = "attend_post" /\ "code" \in DOMAIN resp /\ resp.code = code)
            => /\ resp.kind # "bad_code"
               /\ literal_eval(b64url_decode(code)) =
                     {[session_id |-> id, date |-> d]}

----------------------------------------------------------------------------
(* Registration intake: the gate, the amount check and the stored files    *)

\* Registration forms for one grade or two, with one file or two, with and
\* without the annual registration box.
IntakeRequests ==
    [phone : Phones, pin : FormPins,
     subject_ids : {<<"5">>, <<"6">>, <<"5", "6">>, <<"6", "5">>},
     nfiles : {1, 2}, amount_paid : {250, 500, 700}, paid_check : BOOLEAN]

\* Registration while the admin opens and closes enrollment.
IntakeNext ==
    \/ finish
    \/ do_register(IntakeRequests)
    \/ do_admin_set_enrollment

IntakeSpec == Init /\ [][IntakeNext]_vars

\* C25: a registration rejected for an amount mismatch leaves every table
\* as it was: no Student, Registration, Enrollment, Payment or
\* EnrollmentFile row is persisted, and no id counter advances.
C25_MismatchPersistsNothing ==
    [][(resp'.op = "register" /\ resp'.kind = "payment_error")
          => UNCHANGED db]_vars

\* A rejected registration from a phone no student has, with the annual
\* registration box checked.
C25_Witness ==
    /\ resp.op = "register" /\ resp.kind = "payment_error"
    /\ resp.paid_check
    /\ \A s \in students : s.phone # resp.phone
    /\ registrations = {}

\* The grades of the subjects a registration form lists.
GradesOf(subject_ids) ==
    {Subjects[SqlInt(subject_ids[i])] : i \in 1..Len(subject_ids)}

\* C26: the enrollment rows an accepted registration creates are all for
\* subjects of one grade, and a form that lists subjects of more than one
\* grade is not accepted at the total computed from the grade of its first
\* subject.
C26_SingleGrade ==
    (resp.op = "register"
        /\ resp.kind \in {"no_change", "redirect_status", "submitted"}) =>
        /\ \A a, b \in enrollments :
              (\E i, j \in 1..Len(resp.created) :
                  a.id = resp.created[i][1] /\ b.id = resp.created[j][1])
              => Subjects[a.subject_id] = Subjects[b.subject_id]
        /\ ~(/\ Cardinality(GradesOf(resp.subject_ids)) > 1
             /\ resp.amount_paid =
                   total_due(Subjects[SqlInt(resp.subject_ids[1])],
                             Len(resp.subject_ids)))

\* C27: a registration request that stored a proof-of-payment file passed
\* every validation step, the amount check included: it was accepted.
C27_ValidationBeforeFiles ==
    (resp.op = "register" /\ "stored" \in DOMAIN resp /\ resp.stored > 0)
        => resp.kind \in {"no_change", "redirect_status", "submitted"}

\* C28: a status request whose token parameter is present but empty is
\* answered as one without a token is: not found when the enrollment does
\* not exist, and otherwise the status view of the row, although the empty
\* token is not the stored status_token.
C28_EmptyTokenGranted ==
    (resp.op = "status" /\ resp.token = "") =>
        IF HasEnrollment(resp.id)
        THEN /\ resp.kind = "view"
             /\ resp.status = EnrollmentRow(resp.id).status
             /\ resp.month = EnrollmentRow(resp.id).month
             /\ resp.subject_id = EnrollmentRow(resp.id).subject_id
             /\ EnrollmentRow(resp.id).status_token # ""
        ELSE resp.kind = "not_found"

\* The view of an approved enrollment granted to an empty token.
C28_Witness ==
    /\ resp.op = "status" /\ resp.token = "" /\ resp.kind = "view"
    /\ resp.status = "ACTIVE"
    /\ EnrollmentRow(resp.id).status_token \in Tokens

\* C29: an approve or lapse request without an admin session is redirected
\* to the admin login, changes no enrollment and no student and calls no
\* notifier; an admin's request that names no existing enrollment, or an
\* action other than approve and lapse, changes no enrollment and no
\* student and calls no notifier either.
C29_NoEffectWithoutTarget ==
    [][(/\ resp'.op = "enrollment_action"
        /\ \/ ~resp'.admin
           \/ \A e \in enrollments : e.id # resp'.id
           \/ resp'.action \notin {"approve", "lapse"})
       => /\ UNCHANGED <<enrollments, students>>
          /\ ~resp'.admin => /\ resp'.kind = "redirect_admin_login"
                             /\ "calls" \notin DOMAIN resp'
          /\ resp'.admin => resp'.calls = <<>>]_vars

\* An approve without an admin session, aimed at a PENDING enrollment of a
\* student who has no PIN.
C29_Witness ==
    /\ resp.op = "enrollment_action" /\ ~resp.admin
    /\ resp.action = "approve"
    /\ \E e \in enrollments :
          /\ e.id = resp.id /\ e.status = "PENDING"
          /\ \E s \in students : s.id = e.student_id /\ s.pin = NULL

\* C30: a registration request made while enrollment_open is not '1' is
\* answered with the closed message, leaves every table as it was and
\* stores no file; one made while it is '1', the first time or after an
\* admin has set it back, is not answered with the closed message.
C30_ClosedGate ==
    [][resp'.op = "register" =>
          IF settings.enrollment_open # "1"
          THEN /\ resp'.kind = "closed"
               /\ "stored" \notin DOMAIN resp'
               /\ UNCHANGED db
          ELSE resp'.kind # "closed"]_vars

\* A registration refused at the closed gate after earlier registrations
\* were accepted.
C30_Witness ==
    /\ resp.op = "register" /\ resp.kind = "closed"
    /\ settings.enrollment_open = "0"
    /\ enrollments # {}

====
